---- MODULE Spec2Model ----
(***************************************************************************)
(* The address-allocation core of the DHCP server: the repository of       *)
(* subnets (data.go), the per-subnet lease/binding/bitset state machine    *)
(* (subnet.go) and the locking of the management handlers (api.go).  IPv4  *)
(* addresses are small naturals, MAC addresses are 1..NumMacs, time is a   *)
(* tick counter.                                                           *)
(*                                                                         *)
(* subnets is DataTracker.Subnets, disk the contents of database.json, now *)
(* the clock, handlers the packet handlers inside find_or_get_info, last   *)
(* the outcome of the last subnet management call; hist and wrote are      *)
(* observers of the returned leases and of the save_data calls; mutex and  *)
(* calls are the repository mutex and the threads that take it; requests   *)
(* are the REQUEST handlers between find_info and update_lease_time.       *)
(***************************************************************************)
EXTENDS Integers, Sequences, FiniteSets, TLC

VARIABLES subnets, disk, now, handlers, last, hist, wrote, mutex, calls, requests

vars == <<subnets, disk, now, handlers, last, hist, wrote, mutex, calls, requests>>

(***************************************************************************)
(* Bounds of the model.                                                    *)
(***************************************************************************)
NumMacs == 3
NumHandlers == 2
NumBound == 1
MaxTime == 3
RangeLen == 2
AddrBits == 3
LeaseTicks == 1
NumServers == 2

Macs == 1..NumMacs
Handlers == 1..NumHandlers
\* The MACs that binding requests name.
BoundMacs == 1..NumBound
Names == {"a", "b"}
\* The next servers SetNextServer requests name.
Servers == 1..NumServers

\* A nil *net.IP / *Lease.
Nil == -1

\* Go converts a negative int n to the uint 2^64 + n.  TLC's integers have 32
\* bits, so the model wraps at 2^30: every modulus above the length of the
\* longest bitset gives the same index comparisons.
UintModulus == 1073741824

Uint(x) == IF x < 0 THEN x + UintModulus ELSE x

(***************************************************************************)
(* Maps (Go map[string]*T): functions with a finite domain.                *)
(***************************************************************************)
EmptyMap == [k \in {} |-> Nil]

MapPut(f, k, v) == [x \in (DOMAIN f) \cup {k} |-> IF x = k THEN v ELSE f[x]]

MapRemove(f, k) == [x \in (DOMAIN f) \ {k} |-> f[x]]

(***************************************************************************)
(* github.com/krolaw/dhcp4 helpers, as the code calls them.                *)
(***************************************************************************)
IPRange(start, stop) == stop - start + 1

IPInRange(start, stop, ip) == start <= ip /\ ip <= stop

IPAdd(start, add) == start + add

(***************************************************************************)
(* github.com/willf/bitset: a bitset is a sequence of booleans, bit i at   *)
(* position i + 1.  Set grows the set, Clear ignores an index past the end.*)
(***************************************************************************)
BitNew(length) == [i \in 1..length |-> FALSE]

BitTest(bs, i) == i < Len(bs) /\ bs[i + 1]

BitSet(bs, i) ==
    [k \in 1..(IF i < Len(bs) THEN Len(bs) ELSE i + 1) |->
        IF k = i + 1 THEN TRUE ELSE IF k <= Len(bs) THEN bs[k] ELSE FALSE]

BitClear(bs, i) ==
    IF i >= Len(bs) THEN bs ELSE [bs EXCEPT ![i + 1] = FALSE]

\* Clear applied for every index of idxs (the order does not matter).
BitClearAll(bs, idxs) ==
    [k \in 1..Len(bs) |-> bs[k] /\ \A i \in idxs : BitClear(bs, i)[k]]

firstClearBit(bs) ==
    LET clear == {i \in 0..(Len(bs) - 1) : ~BitTest(bs, i)}
    IN  IF clear = {} THEN [bit |-> 0, ok |-> FALSE]
        ELSE [bit |-> CHOOSE i \in clear : \A j \in clear : i <= j, ok |-> TRUE]

(***************************************************************************)
(* net.IPNet: a CIDR is its masked base address and its prefix length.     *)
(***************************************************************************)
BlockSize(c) == 2 ^ (AddrBits - c.Ones)

Contains(c, ip) == (ip \div BlockSize(c)) = (c.IP \div BlockSize(c))

Cidrs ==
    UNION {{[IP |-> b * (2 ^ (AddrBits - o)), Ones |-> o] : b \in 0..((2 ^ o) - 1)} :
              o \in 0..1}

(***************************************************************************)
(* Subnets.  A subnet arrives from the management layer, and from the data *)
(* file at start-up, as the result of Subnet.UnmarshalJSON on an apiSubnet.*)
(***************************************************************************)
\* The lease times UnmarshalJSON substitutes for a zero, in seconds.
DefaultActiveLeaseTime == 30
DefaultReservedLeaseTime == 7200

\* Set applied for every index of idxs, all of them below the length.
BitSetAll(bs, idxs) == [k \in 1..Len(bs) |-> bs[k] \/ (k - 1) \in idxs]

\* The two options UnmarshalJSON appends to those of the apiSubnet.
MaskOptions(cidr) ==
    <<[Code |-> "OptionSubnetMask", Value |-> cidr.Ones],
      [Code |-> "OptionBroadcastAddress", Value |-> cidr.IP + BlockSize(cidr) - 1]>>

\* The apiSubnet of a request body that names a CIDR and an active range and
\* carries no leases, bindings or options.
Request(name, cidr, start, end) ==
    [Name              |-> name,
     Subnet            |-> cidr,
     ActiveStart       |-> start,
     ActiveEnd         |-> end,
     ActiveLeaseTime   |-> LeaseTicks,
     ReservedLeaseTime |-> LeaseTicks + 1,
     Leases            |-> {},
     Bindings          |-> {},
     Options           |-> <<>>]

\* Subnet.UnmarshalJSON on a new Subnet: the lists of leases and bindings
\* become maps keyed by MAC, ActiveBits is rebuilt from the addresses of the
\* range they name, and the mask and broadcast options are appended.
UnmarshalJSON(as) ==
    LET held == {v.Ip : v \in as.Leases \cup as.Bindings}
        idxs == {Uint(IPRange(as.ActiveStart, ip) - 1) :
                    ip \in {i \in held : IPInRange(as.ActiveStart, as.ActiveEnd, i)}}
    IN  [Name              |-> as.Name,
         Subnet            |-> as.Subnet,
         ActiveStart       |-> as.ActiveStart,
         ActiveEnd         |-> as.ActiveEnd,
         ActiveLeaseTime   |-> IF as.ActiveLeaseTime = 0
                               THEN DefaultActiveLeaseTime ELSE as.ActiveLeaseTime,
         ReservedLeaseTime |-> IF as.ReservedLeaseTime = 0
                               THEN DefaultReservedLeaseTime ELSE as.ReservedLeaseTime,
         ActiveBits        |-> BitSetAll(BitNew(Uint(IPRange(as.ActiveStart, as.ActiveEnd))), idxs),
         Leases            |-> [k \in {v.Mac : v \in as.Leases} |->
                                   LET v == CHOOSE w \in as.Leases : w.Mac = k
                                   IN  [Ip |-> v.Ip, ExpireTime |-> v.ExpireTime]],
         Bindings          |-> [k \in {v.Mac : v \in as.Bindings} |->
                                   LET v == CHOOSE w \in as.Bindings : w.Mac = k
                                   IN  [Ip |-> v.Ip, NextServer |-> v.NextServer]],
         Options           |-> as.Options \o MaskOptions(as.Subnet)]

\* The subnet of a request body whose active range ends RangeLen addresses
\* after the network address.
UnmarshalSubnet(name, cidr, start) ==
    UnmarshalJSON(Request(name, cidr, start, cidr.IP + RangeLen))

\* The request bodies of the model: two active ranges per CIDR, of RangeLen
\* and of RangeLen - 1 addresses, starting one and two addresses after the
\* network address.
SubnetInputs ==
    {UnmarshalSubnet(n, c, c.IP + d) : n \in Names, c \in Cidrs, d \in 1..2}

\* Subnet.UnmarshalJSON rejects an active range that leaves the CIDR.
ValidInputs ==
    {s \in SubnetInputs :
        Contains(s.Subnet, s.ActiveStart) /\ Contains(s.Subnet, s.ActiveEnd)}

\* The addresses a binding request names for a subnet: the ends of the active
\* range and the first address after it.
BindIps(s) == {s.ActiveStart, s.ActiveEnd, s.ActiveEnd + 1}

InActive(s, ip) == IPInRange(s.ActiveStart, s.ActiveEnd, ip)

\* Subnet.MarshalJSON: the apiSubnet save_data writes for one subnet, every
\* field but ActiveBits, the maps as lists of leases and bindings.
Persisted(s) ==
    [Name              |-> s.Name,
     Subnet            |-> s.Subnet,
     ActiveStart       |-> s.ActiveStart,
     ActiveEnd         |-> s.ActiveEnd,
     ActiveLeaseTime   |-> s.ActiveLeaseTime,
     ReservedLeaseTime |-> s.ReservedLeaseTime,
     Leases            |-> {[Mac |-> k, Ip |-> s.Leases[k].Ip,
                             ExpireTime |-> s.Leases[k].ExpireTime] : k \in DOMAIN s.Leases},
     Bindings          |-> {[Mac |-> k, Ip |-> s.Bindings[k].Ip,
                             NextServer |-> s.Bindings[k].NextServer] : k \in DOMAIN s.Bindings},
     Options           |-> s.Options]

\* save_data: the whole repository, serialized.
Snapshot(subs) == [n \in DOMAIN subs |-> Persisted(subs[n])]

(***************************************************************************)
(* subnet.go: the lease life cycle on one subnet.                          *)
(***************************************************************************)
\* free_lease, under the subnet's write lock.
FreeLeaseOp(s, nic) ==
    IF nic \in DOMAIN s.Leases
    THEN LET lease == s.Leases[nic]
         IN  [s EXCEPT
                !.ActiveBits =
                    IF InActive(s, lease.Ip)
                    THEN BitClear(@, Uint(IPRange(lease.Ip, s.ActiveStart) - 1))
                    ELSE @,
                !.Leases = MapRemove(@, nic)]
    ELSE s

\* The leases the sweep of getFreeIP removes at time t.
Expired(s, t) == {k \in DOMAIN s.Leases : t > s.Leases[k].ExpireTime}

\* The sweep of getFreeIP: every expired lease is removed, its bit cleared.
Sweep(s, t) ==
    LET gone == Expired(s, t)
        idxs == {Uint(IPRange(s.Leases[k].Ip, s.ActiveStart) - 1) :
                    k \in {e \in gone : InActive(s, s.Leases[e].Ip)}}
    IN  [s EXCEPT
            !.ActiveBits = BitClearAll(@, idxs),
            !.Leases = [k \in (DOMAIN @) \ gone |-> @[k]]]

\* getFreeIP: the subnet afterwards, the address (Nil: none), the second
\* result, and the MACs whose leases the sweep removed.
getFreeIP(s, t) ==
    LET first == firstClearBit(s.ActiveBits)
        swept == Sweep(s, t)
        second == firstClearBit(swept.ActiveBits)
    IN  IF first.ok
        THEN [subnet  |-> [s EXCEPT !.ActiveBits = BitSet(@, first.bit)],
              ip      |-> IPAdd(s.ActiveStart, first.bit),
              save_me |-> TRUE,
              gone    |-> {}]
        ELSE IF second.ok
        THEN [subnet  |-> [swept EXCEPT !.ActiveBits = BitSet(@, second.bit)],
              ip      |-> IPAdd(s.ActiveStart, second.bit),
              save_me |-> TRUE,
              gone    |-> Expired(s, t)]
        ELSE [subnet  |-> swept,
              ip      |-> Nil,
              save_me |-> Expired(s, t) # {},
              gone    |-> Expired(s, t)]

\* A fast path that never returns: every call goes on to the slow path as
\* if it had found nothing.
FastPathMiss(s, nic) == [hit |-> FALSE, ip |-> Nil, fresh |-> TRUE]

\* The fast path of find_or_get_info, under the read lock: hit says that the
\* call returns from it, with the lease whose address is ip.
FastPath(s, nic) ==
    LET hasB == nic \in DOMAIN s.Bindings
        hasL == nic \in DOMAIN s.Leases
    IN  IF hasL /\ hasB
        THEN IF s.Leases[nic].Ip = s.Bindings[nic].Ip
             THEN [hit |-> TRUE, ip |-> s.Leases[nic].Ip, fresh |-> FALSE]
             ELSE [hit |-> FALSE, ip |-> Nil, fresh |-> FALSE]
        ELSE IF hasL
        THEN [hit |-> TRUE, ip |-> s.Leases[nic].Ip, fresh |-> FALSE]
        ELSE [hit |-> FALSE, ip |-> Nil, fresh |-> ~hasB]

\* A new lease: ExpireTime is the zero time.
NewLease(ip) == [Ip |-> ip, ExpireTime |-> 0]

\* A slow path that searches the pool whatever binding the MAC has.
SlowPathSearch(s, nic, t) ==
    LET free == getFreeIP(s, t)
    IN  IF free.ip = Nil
        THEN [subnet |-> free.subnet, ip |-> Nil, save |-> free.save_me, gone |-> free.gone]
        ELSE [subnet |-> [free.subnet EXCEPT !.Leases = MapPut(@, nic, NewLease(free.ip))],
              ip     |-> free.ip,
              save   |-> TRUE,
              gone   |-> free.gone]

\* The slow path of find_or_get_info, under the write lock: the subnet
\* afterwards, the address of the returned lease (Nil: none), whether
\* save_data is called, and the MACs whose leases a sweep removed.
SlowPath(s, nic, t) ==
    LET hasB == nic \in DOMAIN s.Bindings
        hasL == nic \in DOMAIN s.Leases
        free == getFreeIP(s, t)
    IN  IF hasL /\ hasB /\ s.Leases[nic].Ip = s.Bindings[nic].Ip
        THEN [subnet |-> s, ip |-> s.Leases[nic].Ip, save |-> FALSE, gone |-> {}]
        ELSE IF hasB
        THEN [subnet |-> [s EXCEPT !.Leases = MapPut(@, nic, NewLease(s.Bindings[nic].Ip))],
              ip     |-> s.Bindings[nic].Ip,
              save   |-> TRUE,
              gone   |-> {}]
        ELSE IF free.ip = Nil
        THEN [subnet |-> free.subnet, ip |-> Nil, save |-> free.save_me, gone |-> free.gone]
        ELSE [subnet |-> [free.subnet EXCEPT !.Leases = MapPut(@, nic, NewLease(free.ip))],
              ip     |-> free.ip,
              save   |-> TRUE,
              gone   |-> free.gone]

\* The addresses a DISCOVER suggests: none, or any address.
Suggestions == {Nil} \cup (0..((2 ^ AddrBits) - 1))

\* A find_or_get_info that hands a MAC without lease and binding the address
\* it suggests when the bit of that address is clear.
find_or_get_info_suggested(s, nic, suggest, t) ==
    LET f == FastPath(s, nic)
        r == SlowPath(s, nic, t)
        usable == /\ suggest # Nil
                  /\ nic \notin DOMAIN s.Bindings
                  /\ InActive(s, suggest)
                  /\ ~BitTest(s.ActiveBits, suggest - s.ActiveStart)
    IN  IF f.hit
        THEN [subnet |-> s, ip |-> f.ip, save |-> FALSE]
        ELSE IF usable
        THEN [subnet |-> [s EXCEPT
                             !.ActiveBits = BitSet(@, suggest - s.ActiveStart),
                             !.Leases = MapPut(@, nic, NewLease(suggest))],
              ip     |-> suggest,
              save   |-> TRUE]
        ELSE [subnet |-> r.subnet, ip |-> r.ip, save |-> r.save]

\* find_or_get_info(dt, nic, suggest) at time t: the subnet afterwards, the
\* address of the returned lease (Nil: none; the returned binding is the one
\* the subnet holds for nic) and whether save_data is called.  The code never
\* reads suggest.
find_or_get_info(s, nic, suggest, t) ==
    LET f == FastPath(s, nic)
        r == SlowPath(s, nic, t)
    IN  IF f.hit
        THEN [subnet |-> s, ip |-> f.ip, save |-> FALSE]
        ELSE [subnet |-> r.subnet, ip |-> r.ip, save |-> r.save]

\* build_options: the lease time of a reply.
LeaseTime(s, hasBinding) ==
    IF hasBinding THEN s.ReservedLeaseTime ELSE s.ActiveLeaseTime

(***************************************************************************)
(* uint32 values, as two 16-bit halves: hi * 2^16 + lo.  Lease times are   *)
(* kept in seconds; in the code they are time.Durations, 64-bit counts of  *)
(* nanoseconds.                                                            *)
(***************************************************************************)
HalfModulus == 2 ^ 16

\* The uint32 of a natural below 2^31.
Uint32(n) == [hi |-> (n \div HalfModulus) % HalfModulus, lo |-> n % HalfModulus]

\* a + b modulo 2^32.
Add32(a, b) ==
    [hi |-> (a.hi + b.hi + ((a.lo + b.lo) \div HalfModulus)) % HalfModulus,
     lo |-> (a.lo + b.lo) % HalfModulus]

\* a * k modulo 2^32, for a natural k.
RECURSIVE Mul32(_, _)
Mul32(a, k) ==
    IF k = 0 THEN Uint32(0)
    ELSE LET half == Mul32(a, k \div 2)
             twice == Add32(half, half)
         IN  IF k % 2 = 0 THEN twice ELSE Add32(twice, a)

\* a / 2.
Half32(a) ==
    [hi |-> a.hi \div 2,
     lo |-> (a.lo \div 2) + ((a.hi % 2) * (HalfModulus \div 2))]

\* time.Second, in nanoseconds.
Second == 1000000000

\* uint32(lt) for a time.Duration lt of secs seconds: the low 32 bits of
\* the count of nanoseconds.
Uint32OfDuration(secs) == Mul32(Uint32(Second), secs)

\* build_options: the lease time of the reply, in seconds, and the values
\* of the renewal time and rebinding time options.
build_options(s, hasBinding) ==
    LET lt == LeaseTime(s, hasBinding)
    IN  [lt        |-> lt,
         renewal   |-> Half32(Uint32OfDuration(lt)),
         rebinding |-> Half32(Half32(Mul32(Uint32OfDuration(lt), 3)))]

(***************************************************************************)
(* Packet handlers.  A handler is idle or between the fast and the slow    *)
(* path of find_or_get_info for a MAC on a subnet; fresh says that its     *)
(* fast path found neither a lease nor a binding.                          *)
(***************************************************************************)
IdleHandler == [pc |-> "idle", sn |-> "", mac |-> 0, fresh |-> FALSE]

\* find_or_get_info, from the call to the end of the fast path.
FoaFast(h, n, nic) ==
    /\ handlers[h].pc = "idle"
    /\ n \in DOMAIN subnets
    /\ LET f == FastPath(subnets[n], nic)
       IN  handlers' = [handlers EXCEPT ![h] =
                IF f.hit THEN IdleHandler
                ELSE [pc |-> "slow", sn |-> n, mac |-> nic, fresh |-> f.fresh]]
    /\ UNCHANGED <<subnets, disk, now, last>>

\* find_or_get_info, the slow path and the save_data that follows it.
FoaSlow(h) ==
    /\ handlers[h].pc = "slow"
    /\ handlers[h].sn \in DOMAIN subnets
    /\ LET n == handlers[h].sn
           nic == handlers[h].mac
           r == SlowPath(subnets[n], nic, now)
       IN  /\ subnets' = [subnets EXCEPT ![n] = r.subnet]
           /\ disk' = IF r.save THEN Snapshot(subnets') ELSE disk
    /\ handlers' = [handlers EXCEPT ![h] = IdleHandler]
    /\ UNCHANGED <<now, last>>

\* A handler holds the write lock of subnet n: it is inside the critical
\* section of the slow path of find_or_get_info.
WriteLocked(n) == \E h \in Handlers : handlers[h].pc = "locked" /\ handlers[h].sn = n

\* subnet.Lock() of the slow path: the handler waits until no other handler
\* holds the write lock.
FoaLock(h) ==
    /\ handlers[h].pc = "slow"
    /\ ~WriteLocked(handlers[h].sn)
    /\ handlers' = [handlers EXCEPT ![h].pc = "locked"]
    /\ UNCHANGED <<subnets, disk, now, last>>

\* The critical section of the slow path, subnet.Unlock() and the save_data
\* that follows it.
FoaCritical(h) ==
    /\ handlers[h].pc = "locked"
    /\ handlers[h].sn \in DOMAIN subnets
    /\ LET n == handlers[h].sn
           nic == handlers[h].mac
           r == SlowPath(subnets[n], nic, now)
       IN  /\ subnets' = [subnets EXCEPT ![n] = r.subnet]
           /\ disk' = IF r.save THEN Snapshot(subnets') ELSE disk
    /\ handlers' = [handlers EXCEPT ![h] = IdleHandler]
    /\ UNCHANGED <<now, last>>

\* find_or_get_info run from the call to the return with no other step in
\* between.
FindOrAllocate(n, nic) ==
    /\ n \in DOMAIN subnets
    /\ LET f == FastPath(subnets[n], nic)
           r == SlowPath(subnets[n], nic, now)
       IN  IF f.hit
           THEN UNCHANGED <<subnets, disk>>
           ELSE /\ subnets' = [subnets EXCEPT ![n] = r.subnet]
                /\ disk' = IF r.save THEN Snapshot(subnets') ELSE disk
    /\ UNCHANGED <<now, handlers, last>>

\* A free_lease that does not call save_data.
FreeLeaseNoSave(n, nic) ==
    /\ n \in DOMAIN subnets
    /\ subnets' = [subnets EXCEPT ![n] = FreeLeaseOp(@, nic)]
    /\ UNCHANGED <<disk, now, handlers, last>>

\* DECLINE / RELEASE: free_lease and the save_data that follows it.
FreeLease(n, nic) ==
    /\ n \in DOMAIN subnets
    /\ subnets' = [subnets EXCEPT ![n] = FreeLeaseOp(@, nic)]
    /\ disk' = IF nic \in DOMAIN subnets[n].Leases THEN Snapshot(subnets') ELSE disk
    /\ UNCHANGED <<now, handlers, last>>

\* REQUEST for a MAC that holds a lease: update_lease_time with the lease
\* time of build_options.  Expiry times stay within MaxTime.
UpdateLeaseTime(n, nic) ==
    /\ n \in DOMAIN subnets
    /\ nic \in DOMAIN subnets[n].Leases
    /\ now + LeaseTime(subnets[n], nic \in DOMAIN subnets[n].Bindings) <= MaxTime
    /\ LET s == subnets[n]
           d == LeaseTime(s, nic \in DOMAIN s.Bindings)
       IN  subnets' = [subnets EXCEPT ![n].Leases[nic].ExpireTime = now + d]
    /\ disk' = Snapshot(subnets')
    /\ UNCHANGED <<now, handlers, last>>

\* find_info, under the read lock: whether nic has a lease and a binding,
\* and the address of the lease.  The caller receives pointers to the Lease
\* and the Binding of the maps.
find_info(s, nic) ==
    [hasLease   |-> nic \in DOMAIN s.Leases,
     hasBinding |-> nic \in DOMAIN s.Bindings,
     ip         |-> IF nic \in DOMAIN s.Leases THEN s.Leases[nic].Ip ELSE Nil]

\* A REQUEST handler that holds no lease pointer.
NoRequest ==
    [pc |-> "idle", sn |-> "", mac |-> 0, ip |-> Nil, live |-> FALSE,
     bound |-> FALSE, d |-> 0, renewal |-> Uint32(0), rebinding |-> Uint32(0)]

\* The REQUEST handlers after leases of subnet n were taken out of its lease
\* table for the MACs of macs (deleted, or replaced by a new Lease): the
\* pointers those handlers hold no longer point into the table.
Reclaimed(n, macs) ==
    [h \in Handlers |->
        IF requests[h].pc = "found" /\ requests[h].sn = n /\ requests[h].mac \in macs
        THEN [requests[h] EXCEPT !.live = FALSE]
        ELSE requests[h]]

\* The REQUEST handlers after find_or_get_info for nic on subnet n: the
\* sweep of getFreeIP deletes leases, and a slow path that returns a lease
\* has stored a new Lease for nic.
RequestsAfterFind(n, nic) ==
    LET s == subnets[n]
        r == SlowPath(s, nic, now)
    IN  IF FastPath(s, nic).hit THEN requests
        ELSE Reclaimed(n, r.gone \cup (IF r.ip # Nil THEN {nic} ELSE {}))

\* The REQUEST handlers after free_lease for nic on subnet n.
RequestsAfterFree(n, nic) == Reclaimed(n, {nic})

\* REQUEST, up to the decision: find_info, then NAK when the MAC has no
\* lease or requests another address than its lease has (the handler stays
\* idle); otherwise the handler goes on with the pointer to the lease and
\* with the lease time and the options of build_options.
RequestLookup(h, n, nic, reqip) ==
    /\ requests[h].pc = "idle"
    /\ n \in DOMAIN subnets
    /\ LET s == subnets[n]
           f == find_info(s, nic)
           o == build_options(s, f.hasBinding)
       IN  requests' = [requests EXCEPT ![h] =
                IF f.hasLease /\ f.ip = reqip
                THEN [pc |-> "found", sn |-> n, mac |-> nic, ip |-> f.ip, live |-> TRUE,
                      bound |-> f.hasBinding, d |-> o.lt,
                      renewal |-> o.renewal, rebinding |-> o.rebinding]
                ELSE NoRequest]
    /\ UNCHANGED <<subnets, disk, now, handlers, last>>

\* REQUEST, from update_lease_time to the ACK: the expiry time is written
\* through the pointer, to the lease of the table when the pointer is still
\* the one the table holds, and save_data is called.  Expiry times stay
\* within MaxTime.
RequestUpdate(h) ==
    /\ requests[h].pc = "found"
    /\ now + requests[h].d <= MaxTime
    /\ LET r == requests[h]
       IN  /\ subnets' = IF r.live
                         THEN [subnets EXCEPT ![r.sn].Leases[r.mac].ExpireTime = now + r.d]
                         ELSE subnets
           /\ disk' = Snapshot(subnets')
    /\ requests' = [requests EXCEPT ![h] = NoRequest]
    /\ UNCHANGED <<now, handlers, last>>

\* time.Now() advances.
Tick ==
    /\ now < MaxTime
    /\ now' = now + 1
    /\ UNCHANGED <<subnets, disk, handlers, last>>

(***************************************************************************)
(* data.go: the repository operations of the management layer.  last is    *)
(* the outcome of the most recent AddSubnet, RemoveSubnet or ReplaceSubnet:*)
(* its name, the HTTP status it returned and whether it called save_data.  *)
(***************************************************************************)
StatusOK == 200
StatusBadRequest == 400
StatusNotFound == 404
StatusConflict == 409

Outcome(op, code, saved) == [op |-> op, code |-> code, saved |-> saved]

\* An overlap test that looks in one direction only.
subnetsOverlapOneWay(subs, s) ==
    \E n \in DOMAIN subs : Contains(subs[n].Subnet, s.Subnet.IP)

subnetsOverlap(subs, s) ==
    \E n \in DOMAIN subs :
        \/ Contains(subs[n].Subnet, s.Subnet.IP)
        \/ Contains(s.Subnet, subs[n].Subnet.IP)

\* AddBinding on the subnet it finds.
AddBindingOp(s, nic, ip) ==
    LET cleared ==
            IF nic \in DOMAIN s.Bindings /\ InActive(s, s.Bindings[nic].Ip)
            THEN BitClear(s.ActiveBits, Uint(IPRange(s.ActiveStart, s.Bindings[nic].Ip) - 1))
            ELSE s.ActiveBits
    IN  [s EXCEPT
            !.ActiveBits = IF InActive(s, ip)
                           THEN BitSet(cleared, Uint(IPRange(s.ActiveStart, ip) - 1))
                           ELSE cleared,
            !.Bindings = MapPut(@, nic, [Ip |-> ip, NextServer |-> Nil])]

\* DeleteBinding on the subnet it finds, for a MAC that has a binding.
DeleteBindingOp(s, nic) ==
    [s EXCEPT
        !.ActiveBits = IF InActive(s, s.Bindings[nic].Ip)
                       THEN BitClear(@, Uint(IPRange(s.ActiveStart, s.Bindings[nic].Ip) - 1))
                       ELSE @,
        !.Bindings = MapRemove(@, nic)]

\* AddBinding; for a subnet that does not exist it returns NotFound and
\* changes nothing.
AddBinding(n, nic, ip) ==
    /\ IF n \notin DOMAIN subnets
       THEN UNCHANGED <<subnets, disk>>
       ELSE /\ subnets' = [subnets EXCEPT ![n] = AddBindingOp(@, nic, ip)]
            /\ disk' = Snapshot(subnets')
    /\ UNCHANGED <<now, handlers, last>>

\* DeleteBinding; for a subnet or a binding that does not exist it returns
\* NotFound and changes nothing.
DeleteBinding(n, nic) ==
    /\ IF n \notin DOMAIN subnets \/ nic \notin DOMAIN subnets[n].Bindings
       THEN UNCHANGED <<subnets, disk>>
       ELSE /\ subnets' = [subnets EXCEPT ![n] = DeleteBindingOp(@, nic)]
            /\ disk' = Snapshot(subnets')
    /\ UNCHANGED <<now, handlers, last>>

\* SetNextServer on the subnet it finds: every binding of the address that
\* has no next server, or another one, gets server; save_me says that there
\* was one.
SetNextServerOp(s, ip, server) ==
    LET hit == {k \in DOMAIN s.Bindings :
                   s.Bindings[k].Ip = ip /\ s.Bindings[k].NextServer # server}
    IN  [subnet  |-> [s EXCEPT !.Bindings =
                         [k \in DOMAIN @ |->
                             IF k \in hit THEN [@[k] EXCEPT !.NextServer = server] ELSE @[k]]],
         save_me |-> hit # {}]

\* SetNextServer; for a subnet that does not exist it returns NotFound and
\* changes nothing.
SetNextServer(n, ip, server) ==
    /\ IF n \notin DOMAIN subnets
       THEN UNCHANGED <<subnets, disk>>
       ELSE LET r == SetNextServerOp(subnets[n], ip, server)
            IN  /\ subnets' = [subnets EXCEPT ![n] = r.subnet]
                /\ disk' = IF r.save_me THEN Snapshot(subnets') ELSE disk
    /\ UNCHANGED <<now, handlers, last>>

\* An AddSubnet without the test for a taken name.
AddSubnetUnchecked(s) ==
    /\ IF subnetsOverlap(subnets, s)
       THEN /\ last' = Outcome("AddSubnet", StatusBadRequest, FALSE)
            /\ UNCHANGED <<subnets, disk>>
       ELSE /\ subnets' = MapPut(subnets, s.Name, s)
            /\ disk' = Snapshot(subnets')
            /\ last' = Outcome("AddSubnet", StatusOK, TRUE)
    /\ UNCHANGED <<now, handlers>>

AddSubnet(s) ==
    /\ IF s.Name \in DOMAIN subnets
       THEN /\ last' = Outcome("AddSubnet", StatusConflict, FALSE)
            /\ UNCHANGED <<subnets, disk>>
       ELSE IF subnetsOverlap(subnets, s)
       THEN /\ last' = Outcome("AddSubnet", StatusBadRequest, FALSE)
            /\ UNCHANGED <<subnets, disk>>
       ELSE /\ subnets' = MapPut(subnets, s.Name, s)
            /\ disk' = Snapshot(subnets')
            /\ last' = Outcome("AddSubnet", StatusOK, TRUE)
    /\ UNCHANGED <<now, handlers>>

RemoveSubnet(n) ==
    /\ IF n \notin DOMAIN subnets
       THEN /\ last' = Outcome("RemoveSubnet", StatusNotFound, FALSE)
            /\ UNCHANGED <<subnets, disk>>
       ELSE /\ subnets' = MapRemove(subnets, n)
            /\ disk' = Snapshot(subnets')
            /\ last' = Outcome("RemoveSubnet", StatusOK, TRUE)
    /\ UNCHANGED <<now, handlers>>

\* A carry-over that keeps the new subnet's own, empty bitset.
CarriedFresh(lsubnet, s) ==
    [s EXCEPT !.Leases = lsubnet.Leases,
              !.Bindings = lsubnet.Bindings]

\* ReplaceSubnet's new subnet: the leases, the bindings and the bitset of the
\* subnet it replaces.
Carried(lsubnet, s) ==
    [s EXCEPT !.Leases = lsubnet.Leases,
              !.Bindings = lsubnet.Bindings,
              !.ActiveBits = lsubnet.ActiveBits]

\* A ReplaceSubnet that does not put the old subnet back when it refuses
\* the new one.
ReplaceSubnetNoRestore(subs, dsk, n, s) ==
    IF n \notin DOMAIN subs
    THEN [subnets |-> subs, disk |-> dsk, code |-> StatusNotFound, saved |-> FALSE]
    ELSE LET lsubnet == subs[n]
             subnet == Carried(lsubnet, s)
             rest == MapRemove(subs, lsubnet.Name)
         IN  IF subnetsOverlap(rest, subnet)
             THEN [subnets |-> rest, disk |-> dsk,
                   code |-> StatusBadRequest, saved |-> FALSE]
             ELSE LET stored == MapPut(rest, subnet.Name, subnet)
                  IN  [subnets |-> stored, disk |-> Snapshot(stored),
                       code |-> StatusOK, saved |-> TRUE]

\* ReplaceSubnet on the repository subs with the saved data dsk: the
\* repository and the saved data afterwards, the status, and whether
\* save_data ran.
ReplaceSubnetOp(subs, dsk, n, s) ==
    IF n \notin DOMAIN subs
    THEN [subnets |-> subs, disk |-> dsk, code |-> StatusNotFound, saved |-> FALSE]
    ELSE LET lsubnet == subs[n]
             subnet == Carried(lsubnet, s)
             rest == MapRemove(subs, lsubnet.Name)
         IN  IF subnetsOverlap(rest, subnet)
             THEN [subnets |-> MapPut(rest, lsubnet.Name, lsubnet), disk |-> dsk,
                   code |-> StatusBadRequest, saved |-> FALSE]
             ELSE LET stored == MapPut(rest, subnet.Name, subnet)
                  IN  [subnets |-> stored, disk |-> Snapshot(stored),
                       code |-> StatusOK, saved |-> TRUE]

ReplaceSubnet(n, s) ==
    LET r == ReplaceSubnetOp(subnets, disk, n, s)
    IN  /\ subnets' = r.subnets
        /\ disk' = r.disk
        /\ last' = Outcome("ReplaceSubnet", r.code, r.saved)
        /\ UNCHANGED <<now, handlers>>

(***************************************************************************)
(* api.go: the threads that take the repository mutex.  mutex is the       *)
(* thread that holds it (Free: none), calls[t] is where thread t is: idle, *)
(* waiting in fe.DhcpInfo.Lock() ("lock"), past it ("held"), or waiting in *)
(* the dt.lock.Lock() of load_data or save_data ("data").                  *)
(***************************************************************************)
Free == 0

NoApiCall == [pc |-> "idle", op |-> ""]

ApiOps == {"NewFrontend", "GetAllSubnets", "CreateSubnet", "DeleteSubnet"}

\* A thread returns from its call.
Return(t) == calls' = [calls EXCEPT ![t] = NoApiCall]

\* A start-up or management call begins: it reaches fe.DhcpInfo.Lock().
ApiCall(t, op) ==
    /\ calls[t].pc = "idle"
    /\ calls' = [calls EXCEPT ![t] = [pc |-> "lock", op |-> op]]
    /\ UNCHANGED <<subnets, disk, now, handlers, last, hist, wrote, mutex, requests>>

\* fe.DhcpInfo.Lock() returns: the repository mutex was free.
ApiLock(t) ==
    /\ calls[t].pc = "lock"
    /\ mutex = Free
    /\ mutex' = t
    /\ calls' = [calls EXCEPT ![t].pc = "held"]
    /\ UNCHANGED <<subnets, disk, now, handlers, last, hist, wrote, requests>>

\* NewFrontend after its Lock: it calls load_data, which locks dt.lock.
NewFrontendBody(t) ==
    /\ calls[t] = [pc |-> "held", op |-> "NewFrontend"]
    /\ calls' = [calls EXCEPT ![t].pc = "data"]
    /\ UNCHANGED <<subnets, disk, now, handlers, last, hist, wrote, mutex, requests>>

\* GetAllSubnets after its Lock: when NewCapabilityMap fails (err) it
\* returns at once, otherwise it unlocks and returns.
GetAllSubnetsBody(t, err) ==
    /\ calls[t] = [pc |-> "held", op |-> "GetAllSubnets"]
    /\ mutex' = IF err THEN mutex ELSE Free
    /\ Return(t)
    /\ UNCHANGED <<subnets, disk, now, handlers, last, hist, wrote, requests>>

\* CreateSubnet after its Lock: AddSubnet refuses the subnet, and the
\* handler unlocks and returns, or stores it and calls save_data, which
\* locks dt.lock.
CreateSubnetBody(t, s) ==
    /\ calls[t] = [pc |-> "held", op |-> "CreateSubnet"]
    /\ IF s.Name \in DOMAIN subnets \/ subnetsOverlap(subnets, s)
       THEN /\ mutex' = Free
            /\ Return(t)
            /\ UNCHANGED subnets
       ELSE /\ subnets' = MapPut(subnets, s.Name, s)
            /\ calls' = [calls EXCEPT ![t].pc = "data"]
            /\ UNCHANGED mutex
    /\ UNCHANGED <<disk, now, handlers, last, hist, wrote, requests>>

\* DeleteSubnet after its Lock: for a missing subnet it unlocks and returns;
\* when NewCapabilityMap fails (err) it returns at once; otherwise
\* RemoveSubnet deletes the subnet and calls save_data.
DeleteSubnetBody(t, n, err) ==
    /\ calls[t] = [pc |-> "held", op |-> "DeleteSubnet"]
    /\ IF n \notin DOMAIN subnets
       THEN /\ mutex' = Free
            /\ Return(t)
            /\ UNCHANGED subnets
       ELSE IF err
       THEN /\ Return(t)
            /\ UNCHANGED <<subnets, mutex>>
       ELSE /\ subnets' = MapRemove(subnets, n)
            /\ calls' = [calls EXCEPT ![t].pc = "data"]
            /\ UNCHANGED mutex
    /\ UNCHANGED <<disk, now, handlers, last, hist, wrote, requests>>

\* A DISCOVER: find_or_get_info on the subnet, without the repository
\* mutex; when it has to save, it calls save_data.
Discover(t, n, nic) ==
    /\ calls[t].pc = "idle"
    /\ n \in DOMAIN subnets
    /\ LET r == find_or_get_info(subnets[n], nic, Nil, now)
       IN  /\ subnets' = [subnets EXCEPT ![n] = r.subnet]
           /\ calls' = [calls EXCEPT ![t] =
                  IF r.save THEN [pc |-> "data", op |-> "Discover"] ELSE NoApiCall]
    /\ UNCHANGED <<disk, now, handlers, last, hist, wrote, mutex, requests>>

\* load_data / save_data: dt.lock.Lock() returns when the mutex is free; the
\* file is read or written, dt.lock is unlocked, and the caller runs to its
\* return (a management handler through its Unlock).
DataLock(t) ==
    /\ calls[t].pc = "data"
    /\ mutex = Free
    /\ IF calls[t].op = "NewFrontend"
       THEN /\ subnets' = [n \in DOMAIN disk |-> UnmarshalJSON(disk[n])]
            /\ UNCHANGED disk
       ELSE /\ disk' = Snapshot(subnets)
            /\ UNCHANGED subnets
    /\ mutex' = Free
    /\ Return(t)
    /\ UNCHANGED <<now, handlers, last, hist, wrote, requests>>

(***************************************************************************)
(* Specifications.                                                         *)
(***************************************************************************)
\* One subnet, as AddSubnet stored it: 0.0.0.0/1 of the model's address
\* space, active range 1..RangeLen.
FirstSubnet == UnmarshalSubnet("a", [IP |-> 0, Ones |-> 1], 1)

\* The MAC whose find_or_get_info results hist records: ret is the address
\* of the last lease a call returned to it since the last free_lease for it
\* (Nil: none yet), swept says that a sweep of getFreeIP has removed its
\* lease since then.  hist is an observer: no operation reads it.
TrackedMac == NumBound

NoHistory == [ret |-> Nil, swept |-> FALSE]

\* The observer of save_data: the name of a call and whether it called
\* save_data.
Call(op, saved) == [op |-> op, saved |-> saved]

NoCall == Call("", FALSE)

\* What find_or_get_info returns for nic on s at time t: the address of the
\* lease (Nil: no lease).
Returned(s, nic, t) ==
    IF FastPath(s, nic).hit THEN FastPath(s, nic).ip ELSE SlowPath(s, nic, t).ip

\* hist after find_or_get_info for nic on subnet n.
HistAfterFind(n, nic) ==
    LET s == subnets[n]
        r == Returned(s, nic, now)
    IN  IF n # FirstSubnet.Name THEN hist
        ELSE IF nic = TrackedMac
        THEN IF r = Nil THEN hist ELSE [ret |-> r, swept |-> FALSE]
        ELSE IF ~FastPath(s, nic).hit /\ TrackedMac \in SlowPath(s, nic, now).gone
        THEN [hist EXCEPT !.swept = TRUE]
        ELSE hist

\* hist after free_lease for nic on subnet n.
HistAfterFree(n, nic) ==
    IF n = FirstSubnet.Name /\ nic = TrackedMac THEN NoHistory ELSE hist

Init ==
    /\ subnets = [n \in {FirstSubnet.Name} |-> FirstSubnet]
    /\ disk = Snapshot(subnets)
    /\ now = 1
    /\ handlers = [h \in Handlers |-> IdleHandler]
    /\ last = Outcome("", 0, FALSE)
    /\ hist = NoHistory
    /\ wrote = NoCall
    /\ mutex = Free
    /\ calls = [t \in Handlers |-> NoApiCall]
    /\ requests = [h \in Handlers |-> NoRequest]

Next ==
    \/ \E h \in Handlers, n \in Names, nic \in Macs : FoaFast(h, n, nic) /\ UNCHANGED <<hist, wrote, mutex, calls, requests>>
    \/ \E h \in Handlers : FoaSlow(h) /\ UNCHANGED <<hist, wrote, mutex, calls, requests>>
    \/ \E n \in Names, nic \in Macs : FreeLease(n, nic) /\ UNCHANGED <<hist, wrote, mutex, calls, requests>>
    \/ \E n \in Names, nic \in Macs : UpdateLeaseTime(n, nic) /\ UNCHANGED <<hist, wrote, mutex, calls, requests>>
    \/ \E n \in Names, nic \in BoundMacs : \E ip \in BindIps(FirstSubnet) :
            AddBinding(n, nic, ip) /\ UNCHANGED <<hist, wrote, mutex, calls, requests>>
    \/ \E n \in Names, nic \in BoundMacs : DeleteBinding(n, nic) /\ UNCHANGED <<hist, wrote, mutex, calls, requests>>
    \/ Tick /\ UNCHANGED <<hist, wrote, mutex, calls, requests>>

\* The lease and binding life cycle of one subnet under concurrent packet
\* handlers and binding changes.
Spec == Init /\ [][Next]_vars

\* The same life cycle with every find_or_get_info call run from its call to
\* its return with no other step in between, and hist kept.
NextSeq ==
    \/ \E n \in DOMAIN subnets, nic \in Macs :
            FindOrAllocate(n, nic) /\ hist' = HistAfterFind(n, nic) /\ UNCHANGED <<wrote, mutex, calls, requests>>
    \/ \E n \in DOMAIN subnets, nic \in Macs :
            FreeLease(n, nic) /\ hist' = HistAfterFree(n, nic) /\ UNCHANGED <<wrote, mutex, calls, requests>>
    \/ \E n \in Names, nic \in Macs : UpdateLeaseTime(n, nic) /\ UNCHANGED <<hist, wrote, mutex, calls, requests>>
    \/ \E n \in Names, nic \in BoundMacs : \E ip \in BindIps(FirstSubnet) :
            AddBinding(n, nic, ip) /\ UNCHANGED <<hist, wrote, mutex, calls, requests>>
    \/ \E n \in Names, nic \in BoundMacs : DeleteBinding(n, nic) /\ UNCHANGED <<hist, wrote, mutex, calls, requests>>
    \/ Tick /\ UNCHANGED <<hist, wrote, mutex, calls, requests>>

SpecSeq == Init /\ [][NextSeq]_vars

\* The addresses the binding requests of the specifications below name:
\* the two ends of the first subnet's active range.
RepoBindIps == {FirstSubnet.ActiveStart, FirstSubnet.ActiveEnd}

\* The MACs of their packets: one that binding requests name and one more.
SaveMacs == 1..(NumBound + 1)

\* The life cycle of one subnet with the subnet's reader-writer lock: the
\* fast path (RLock), the slow path (Lock) and free_lease (Lock) wait while
\* a handler holds the write lock; update_lease_time, AddBinding,
\* DeleteBinding and SetNextServer take no lock and run at any time.
NextLock ==
    \/ \E h \in Handlers, n \in Names, nic \in SaveMacs :
            ~WriteLocked(n) /\ FoaFast(h, n, nic) /\ UNCHANGED <<hist, wrote, mutex, calls, requests>>
    \/ \E h \in Handlers : FoaLock(h) /\ UNCHANGED <<hist, wrote, mutex, calls, requests>>
    \/ \E h \in Handlers : FoaCritical(h) /\ UNCHANGED <<hist, wrote, mutex, calls, requests>>
    \/ \E n \in Names, nic \in SaveMacs :
            ~WriteLocked(n) /\ FreeLease(n, nic) /\ UNCHANGED <<hist, wrote, mutex, calls, requests>>
    \/ \E n \in Names, nic \in SaveMacs : UpdateLeaseTime(n, nic) /\ UNCHANGED <<hist, wrote, mutex, calls, requests>>
    \/ \E n \in Names, nic \in BoundMacs : \E ip \in RepoBindIps :
            AddBinding(n, nic, ip) /\ UNCHANGED <<hist, wrote, mutex, calls, requests>>
    \/ \E n \in Names, nic \in BoundMacs : DeleteBinding(n, nic) /\ UNCHANGED <<hist, wrote, mutex, calls, requests>>
    \/ \E n \in Names, ip \in RepoBindIps, server \in Servers :
            SetNextServer(n, ip, server) /\ UNCHANGED <<hist, wrote, mutex, calls, requests>>
    \/ Tick /\ UNCHANGED <<hist, wrote, mutex, calls, requests>>

SpecLock == Init /\ [][NextLock]_vars

\* The life cycle of one subnet with REQUEST handlers that run find_info
\* and update_lease_time as two steps, between which DISCOVERs, releases and
\* binding changes of other handlers run.
NextRequest ==
    \/ \E h \in Handlers, n \in Names, nic \in SaveMacs, reqip \in RepoBindIps :
            RequestLookup(h, n, nic, reqip) /\ UNCHANGED <<hist, wrote, mutex, calls>>
    \/ \E h \in Handlers : RequestUpdate(h) /\ UNCHANGED <<hist, wrote, mutex, calls>>
    \/ \E n \in DOMAIN subnets, nic \in SaveMacs :
            FindOrAllocate(n, nic) /\ requests' = RequestsAfterFind(n, nic)
                /\ UNCHANGED <<hist, wrote, mutex, calls>>
    \/ \E n \in DOMAIN subnets, nic \in SaveMacs :
            FreeLease(n, nic) /\ requests' = RequestsAfterFree(n, nic)
                /\ UNCHANGED <<hist, wrote, mutex, calls>>
    \/ \E n \in Names, nic \in BoundMacs : \E ip \in RepoBindIps :
            AddBinding(n, nic, ip) /\ UNCHANGED <<hist, wrote, mutex, calls, requests>>
    \/ \E n \in Names, nic \in BoundMacs : DeleteBinding(n, nic) /\ UNCHANGED <<hist, wrote, mutex, calls, requests>>
    \/ Tick /\ UNCHANGED <<hist, wrote, mutex, calls, requests>>

SpecRequest == Init /\ [][NextRequest]_vars

\* The lease times, in seconds, of the request bodies below: 0 (for which
\* UnmarshalJSON substitutes its default), the two of the other request
\* bodies, a minute and a day.
RequestLeaseTimes == {0, LeaseTicks, LeaseTicks + 1, 60, 86400}

\* The first subnet, from a request body with the lease times active and
\* reserved.
TimedSubnet(active, reserved) ==
    UnmarshalJSON([Request(FirstSubnet.Name, FirstSubnet.Subnet,
                           FirstSubnet.ActiveStart, FirstSubnet.ActiveEnd)
                      EXCEPT !.ActiveLeaseTime = active,
                             !.ReservedLeaseTime = reserved])

InitOptions ==
    /\ \E active \in RequestLeaseTimes, reserved \in RequestLeaseTimes :
            subnets = [n \in {FirstSubnet.Name} |-> TimedSubnet(active, reserved)]
    /\ disk = Snapshot(subnets)
    /\ now = 1
    /\ handlers = [h \in Handlers |-> IdleHandler]
    /\ last = Outcome("", 0, FALSE)
    /\ hist = NoHistory
    /\ wrote = NoCall
    /\ mutex = Free
    /\ calls = [t \in Handlers |-> NoApiCall]
    /\ requests = [h \in Handlers |-> NoRequest]

\* REQUESTs, with the options build_options composes for their ACK, on a
\* subnet of any of these lease times, for a MAC that DISCOVERs, releases
\* its lease, and is given and loses a binding.
NextOptions ==
    \/ \E h \in Handlers, n \in Names, nic \in BoundMacs, reqip \in RepoBindIps :
            RequestLookup(h, n, nic, reqip) /\ UNCHANGED <<hist, wrote, mutex, calls>>
    \/ \E h \in Handlers : RequestUpdate(h) /\ UNCHANGED <<hist, wrote, mutex, calls>>
    \/ \E n \in DOMAIN subnets, nic \in BoundMacs :
            FindOrAllocate(n, nic) /\ requests' = RequestsAfterFind(n, nic)
                /\ UNCHANGED <<hist, wrote, mutex, calls>>
    \/ \E n \in DOMAIN subnets, nic \in BoundMacs :
            FreeLease(n, nic) /\ requests' = RequestsAfterFree(n, nic)
                /\ UNCHANGED <<hist, wrote, mutex, calls>>
    \/ \E n \in Names, nic \in BoundMacs : \E ip \in RepoBindIps :
            AddBinding(n, nic, ip) /\ UNCHANGED <<hist, wrote, mutex, calls, requests>>
    \/ \E n \in Names, nic \in BoundMacs : DeleteBinding(n, nic) /\ UNCHANGED <<hist, wrote, mutex, calls, requests>>

SpecOptions == InitOptions /\ [][NextOptions]_vars

\* The calls of the sequential life cycle and of the management layer with
\* an observer of save_data: wrote holds the name of the last call and
\* whether it called save_data.
\* The request bodies of the management calls: the first subnet's CIDR and
\* the start of its active range, under either name.
SaveInputs ==
    {s \in ValidInputs : s.Subnet = FirstSubnet.Subnet /\ s.ActiveStart = FirstSubnet.ActiveStart}

NextSave ==
    \/ \E n \in Names, nic \in SaveMacs :
            /\ FindOrAllocate(n, nic)
            /\ wrote' = Call("find_or_get_info",
                             ~FastPath(subnets[n], nic).hit /\ SlowPath(subnets[n], nic, now).save)
            /\ UNCHANGED <<hist, mutex, calls, requests>>
    \/ \E n \in Names, nic \in SaveMacs :
            /\ FreeLease(n, nic)
            /\ wrote' = Call("free_lease", nic \in DOMAIN subnets[n].Leases)
            /\ UNCHANGED <<hist, mutex, calls, requests>>
    \/ \E n \in Names, nic \in SaveMacs :
            /\ UpdateLeaseTime(n, nic)
            /\ wrote' = Call("update_lease_time", TRUE)
            /\ UNCHANGED <<hist, mutex, calls, requests>>
    \/ \E n \in Names, nic \in BoundMacs : \E ip \in RepoBindIps :
            /\ AddBinding(n, nic, ip)
            /\ wrote' = Call("AddBinding", n \in DOMAIN subnets)
            /\ UNCHANGED <<hist, mutex, calls, requests>>
    \/ \E n \in Names, nic \in BoundMacs :
            /\ DeleteBinding(n, nic)
            /\ wrote' = Call("DeleteBinding",
                             n \in DOMAIN subnets /\ nic \in DOMAIN subnets[n].Bindings)
            /\ UNCHANGED <<hist, mutex, calls, requests>>
    \/ \E n \in Names, ip \in RepoBindIps, server \in Servers :
            /\ SetNextServer(n, ip, server)
            /\ wrote' = Call("SetNextServer",
                             n \in DOMAIN subnets /\ SetNextServerOp(subnets[n], ip, server).save_me)
            /\ UNCHANGED <<hist, mutex, calls, requests>>
    \/ \E s \in SaveInputs :
            /\ AddSubnet(s)
            /\ wrote' = Call("AddSubnet", last'.saved)
            /\ UNCHANGED <<hist, mutex, calls, requests>>
    \/ \E n \in Names :
            /\ RemoveSubnet(n)
            /\ wrote' = Call("RemoveSubnet", last'.saved)
            /\ UNCHANGED <<hist, mutex, calls, requests>>
    \/ \E n \in Names, s \in SaveInputs :
            /\ ReplaceSubnet(n, s)
            /\ wrote' = Call("ReplaceSubnet", last'.saved)
            /\ UNCHANGED <<hist, mutex, calls, requests>>
    \/ Tick /\ UNCHANGED <<hist, wrote, mutex, calls, requests>>

SpecSave == Init /\ [][NextSave]_vars

\* The threads of the management layer, of start-up and of the packet
\* handlers with the repository mutex.  Each thread runs one call at a time:
\* NewFrontend, a management handler of api.go, or a DISCOVER.
NextApi ==
    \/ \E t \in Handlers, op \in ApiOps : ApiCall(t, op)
    \/ \E t \in Handlers : ApiLock(t)
    \/ \E t \in Handlers : NewFrontendBody(t)
    \/ \E t \in Handlers, err \in BOOLEAN : GetAllSubnetsBody(t, err)
    \/ \E t \in Handlers, s \in ValidInputs : CreateSubnetBody(t, s)
    \/ \E t \in Handlers, n \in Names, err \in BOOLEAN : DeleteSubnetBody(t, n, err)
    \/ \E t \in Handlers, n \in Names, nic \in SaveMacs : Discover(t, n, nic)
    \/ \E t \in Handlers : DataLock(t)

SpecApi == Init /\ [][NextApi]_vars

\* The repository under the management operations, with allocations and
\* bindings requested on the subnet of the first name; it starts empty.
InitRepo ==
    /\ subnets = EmptyMap
    /\ disk = Snapshot(subnets)
    /\ now = 1
    /\ handlers = [h \in Handlers |-> IdleHandler]
    /\ last = Outcome("", 0, FALSE)
    /\ hist = NoHistory
    /\ wrote = NoCall
    /\ mutex = Free
    /\ calls = [t \in Handlers |-> NoApiCall]
    /\ requests = [h \in Handlers |-> NoRequest]

NextRepo ==
    \/ \E s \in ValidInputs : AddSubnet(s) /\ UNCHANGED <<hist, wrote, mutex, calls, requests>>
    \/ \E n \in Names : RemoveSubnet(n) /\ UNCHANGED <<hist, wrote, mutex, calls, requests>>
    \/ \E n \in Names, s \in ValidInputs : ReplaceSubnet(n, s) /\ UNCHANGED <<hist, wrote, mutex, calls, requests>>
    \/ \E nic \in BoundMacs : FindOrAllocate(FirstSubnet.Name, nic) /\ UNCHANGED <<hist, wrote, mutex, calls, requests>>
    \/ \E nic \in BoundMacs : \E ip \in RepoBindIps :
            AddBinding(FirstSubnet.Name, nic, ip) /\ UNCHANGED <<hist, wrote, mutex, calls, requests>>

SpecRepo == InitRepo /\ [][NextRepo]_vars

(***************************************************************************)
(* Claims.                                                                 *)
(***************************************************************************)
\* The addresses the leases and the bindings of a subnet hold.
Held(s) ==
    {s.Leases[k].Ip : k \in DOMAIN s.Leases} \cup {s.Bindings[k].Ip : k \in DOMAIN s.Bindings}

\* C1: in every reachable state of a subnet, every lease and every binding
\* whose address lies in [ActiveStart, ActiveEnd] has its bit
\* (address - ActiveStart) of ActiveBits set.
C1_HeldAddressesHaveTheirBit ==
    \A n \in DOMAIN subnets :
        \A ip \in Held(subnets[n]) :
            InActive(subnets[n], ip) =>
                BitTest(subnets[n].ActiveBits, ip - subnets[n].ActiveStart)

\* C2: in every reachable state of a subnet, a bit i of ActiveBits is set
\* only if a lease or a binding of the subnet has the address ActiveStart + i.
C2_SetBitsAreHeld ==
    \A n \in DOMAIN subnets :
        \A i \in 0..(Len(subnets[n].ActiveBits) - 1) :
            BitTest(subnets[n].ActiveBits, i) =>
                IPAdd(subnets[n].ActiveStart, i) \in Held(subnets[n])

\* C3: when a handler that found neither a lease nor a binding for its MAC
\* reaches the slow path of find_or_get_info after another call has stored
\* a lease for the same MAC, it returns the address of that lease, the
\* subnet keeps that one lease for the MAC and no further bit of ActiveBits
\* is set: the two calls end as if they had run one after the other.
C3_ConcurrentCallsAgree ==
    [][\A h \in Handlers :
          LET n == handlers[h].sn
              nic == handlers[h].mac
          IN  (/\ handlers[h].pc = "slow"
               /\ handlers[h].fresh
               /\ handlers'[h].pc = "idle"
               /\ n \in DOMAIN subnets
               /\ nic \in DOMAIN subnets[n].Leases
               /\ nic \notin DOMAIN subnets[n].Bindings)
              => /\ SlowPath(subnets[n], nic, now).ip = subnets[n].Leases[nic].Ip
                 /\ subnets'[n].Leases = subnets[n].Leases
                 /\ subnets'[n].ActiveBits = subnets[n].ActiveBits]_vars

\* The subnet of TrackedMac.
Tracked == subnets[FirstSubnet.Name]

\* C4, as stated: a find_or_get_info call for a MAC returns the address the
\* previous call for it returned as long as no free_lease for the MAC came
\* between them, whatever else happened in between; and it returns the
\* address of the MAC's binding once there is one.  (Every state is one in
\* which the next call can start, so the property is stated of the result a
\* call would return in the state.)
C4_SameAddressUntilFreed ==
    LET r == Returned(Tracked, TrackedMac, now)
    IN  /\ TrackedMac \in DOMAIN Tracked.Bindings => r = Tracked.Bindings[TrackedMac].Ip
        /\ (TrackedMac \notin DOMAIN Tracked.Bindings /\ hist.ret # Nil) => r = hist.ret

\* C4: a find_or_get_info call for a MAC returns the address the previous
\* call for it returned as long as neither a free_lease for the MAC nor an
\* expiry sweep that removed the MAC's lease came between them; and it
\* returns the address of the MAC's binding once there is one.
C4_SameAddressUntilFreedOrSwept ==
    LET r == Returned(Tracked, TrackedMac, now)
    IN  /\ TrackedMac \in DOMAIN Tracked.Bindings => r = Tracked.Bindings[TrackedMac].Ip
        /\ (/\ TrackedMac \notin DOMAIN Tracked.Bindings
            /\ hist.ret # Nil
            /\ ~hist.swept) => r = hist.ret

\* A call has returned an address to the MAC, time has advanced since the
\* start, another MAC holds a lease, and the MAC's lease has not been swept.
C4_Witness ==
    /\ hist.ret # Nil
    /\ ~hist.swept
    /\ TrackedMac \notin DOMAIN Tracked.Bindings
    /\ now > 1
    /\ \E k \in DOMAIN Tracked.Leases : k # TrackedMac

\* C5: when the MAC has a binding, the slow path of find_or_get_info returns
\* a lease with the binding's address and does not search the pool: the
\* MAC's lease afterwards has the binding's address, ActiveBits is unchanged
\* and the leases of the other MACs are unchanged (no sweep ran).
C5_BindingBypassesPool ==
    [][\A h \in Handlers :
          LET n == handlers[h].sn
              nic == handlers[h].mac
          IN  (/\ handlers[h].pc = "slow"
               /\ handlers'[h].pc = "idle"
               /\ n \in DOMAIN subnets
               /\ nic \in DOMAIN subnets[n].Bindings)
              => /\ SlowPath(subnets[n], nic, now).ip = subnets[n].Bindings[nic].Ip
                 /\ nic \in DOMAIN subnets'[n].Leases
                 /\ subnets'[n].Leases[nic].Ip = subnets[n].Bindings[nic].Ip
                 /\ subnets'[n].ActiveBits = subnets[n].ActiveBits
                 /\ \A k \in Macs \ {nic} :
                        /\ k \in DOMAIN subnets'[n].Leases <=> k \in DOMAIN subnets[n].Leases
                        /\ k \in DOMAIN subnets[n].Leases =>
                               subnets'[n].Leases[k] = subnets[n].Leases[k]]_vars

\* A MAC holds a lease at its binding's address outside the active range,
\* and no bit of ActiveBits is set.
C5_Witness ==
    \E n \in DOMAIN subnets : \E nic \in DOMAIN subnets[n].Bindings :
        /\ nic \in DOMAIN subnets[n].Leases
        /\ subnets[n].Leases[nic].Ip = subnets[n].Bindings[nic].Ip
        /\ ~InActive(subnets[n], subnets[n].Bindings[nic].Ip)
        /\ \A i \in 0..(Len(subnets[n].ActiveBits) - 1) : ~BitTest(subnets[n].ActiveBits, i)

\* C6: in every reachable state of a subnet, AddBinding for a MAC that has no
\* binding followed by DeleteBinding for the same MAC leaves the leases, the
\* bindings and ActiveBits of the subnet as they were.
C6_AddThenDeleteRestores ==
    \A n \in DOMAIN subnets : \A nic \in Macs : \A ip \in BindIps(subnets[n]) :
        LET s == subnets[n]
            after == DeleteBindingOp(AddBindingOp(s, nic, ip), nic)
        IN  nic \notin DOMAIN s.Bindings =>
                /\ after.Leases = s.Leases
                /\ after.Bindings = s.Bindings
                /\ after.ActiveBits = s.ActiveBits

\* The in-range leases of s.
PoolLeases(s) == {k \in DOMAIN s.Leases : InActive(s, s.Leases[k].Ip)}

\* Every address of the active range of s is held by the lease of a MAC
\* other than nic, and nic has neither a lease nor a binding.
PoolHeld(s, nic) ==
    /\ nic \notin DOMAIN s.Leases
    /\ nic \notin DOMAIN s.Bindings
    /\ \A ip \in s.ActiveStart..s.ActiveEnd :
           \E k \in PoolLeases(s) : s.Leases[k].Ip = ip

\* C7: when leases of other MACs hold every address of the active range,
\* find_or_get_info for a further MAC returns no lease while all of those
\* leases are unexpired, and returns the lowest address of the range once
\* all of them have expired.
C7_ExhaustionThenReclaim ==
    \A n \in DOMAIN subnets : \A nic \in Macs :
        LET s == subnets[n]
        IN  PoolHeld(s, nic) =>
                /\ (\A k \in PoolLeases(s) : ~(now > s.Leases[k].ExpireTime))
                       => Returned(s, nic, now) = Nil
                /\ (\A k \in PoolLeases(s) : now > s.Leases[k].ExpireTime)
                       => Returned(s, nic, now) = s.ActiveStart

\* Two CIDRs overlap: one contains the base address of the other.
Overlap(c, d) == Contains(c, d.IP) \/ Contains(d, c.IP)

\* C8: after any sequence of AddSubnet, RemoveSubnet and ReplaceSubnet
\* calls, no subnet of the repository contains the base address of another.
C8_NoOverlappingSubnets ==
    \A n \in DOMAIN subnets : \A m \in DOMAIN subnets :
        n # m => ~Contains(subnets[n].Subnet, subnets[m].Subnet.IP)

\* The repository holds two subnets and the last management call was a
\* ReplaceSubnet refused for an overlap.
C8_Witness ==
    /\ Cardinality(DOMAIN subnets) = 2
    /\ last = Outcome("ReplaceSubnet", StatusBadRequest, FALSE)

\* C9: AddSubnet(s) returns 409 when the name of s is taken, 400 when the
\* name is free and the CIDR of s overlaps that of a subnet of the
\* repository, and otherwise stores s under its name and saves; the two
\* failures leave the repository and the saved data as they were and do not
\* save.
C9_AddSubnetOutcomes ==
    [][\A s \in ValidInputs :
          (last'.op = "AddSubnet" /\ AddSubnet(s)) =>
              IF s.Name \in DOMAIN subnets
              THEN /\ last'.code = StatusConflict
                   /\ ~last'.saved
                   /\ subnets' = subnets
                   /\ disk' = disk
              ELSE IF \E n \in DOMAIN subnets : Overlap(subnets[n].Subnet, s.Subnet)
              THEN /\ last'.code = StatusBadRequest
                   /\ ~last'.saved
                   /\ subnets' = subnets
                   /\ disk' = disk
              ELSE /\ last'.code = StatusOK
                   /\ last'.saved
                   /\ DOMAIN subnets' = (DOMAIN subnets) \cup {s.Name}
                   /\ subnets'[s.Name] = s
                   /\ \A n \in DOMAIN subnets : subnets'[n] = subnets[n]
                   /\ disk' = Snapshot(subnets')]_vars

\* The last management call was an AddSubnet refused for an overlap with a
\* subnet of the repository.
C9_Witness ==
    /\ last = Outcome("AddSubnet", StatusBadRequest, FALSE)
    /\ DOMAIN subnets # {}

C11_ReplaceSubnetRefusals ==
    \A n \in Names : \A s \in ValidInputs :
        LET missing == n \notin DOMAIN subnets
            clash == \E m \in (DOMAIN subnets) \ {n} : Overlap(subnets[m].Subnet, s.Subnet)
            r == ReplaceSubnetOp(subnets, disk, n, s)
        IN  (missing \/ clash) =>
                /\ r.code = (IF missing THEN StatusNotFound ELSE StatusBadRequest)
                /\ ~r.saved
                /\ r.subnets = subnets
                /\ r.disk = disk

\* The last management call was a ReplaceSubnet refused for an overlap, and
\* a subnet of the repository holds a lease, a binding and a set bit.
C11_Witness ==
    /\ last = Outcome("ReplaceSubnet", StatusBadRequest, FALSE)
    /\ \E n \in DOMAIN subnets :
           /\ DOMAIN subnets[n].Leases # {}
           /\ DOMAIN subnets[n].Bindings # {}
           /\ \E i \in 0..(Len(subnets[n].ActiveBits) - 1) : BitTest(subnets[n].ActiveBits, i)

\* C12: in every reachable state, UnmarshalJSON of what MarshalJSON writes
\* for a subnet is that subnet again: the same name, CIDR, active range,
\* lease times, leases, bindings and options, and an ActiveBits equal to the
\* one in memory.
C12_RoundTrip ==
    \A n \in DOMAIN subnets : UnmarshalJSON(Persisted(subnets[n])) = subnets[n]

\* The repository as save_data would write it differs before and after a
\* step.
PersistentChange == Snapshot(subnets') # Snapshot(subnets)

\* C13 as stated: the saved data always equals the subnets, leases and
\* bindings in memory, a call that changes them calls save_data, and a call
\* that changes none of them does not.
C13_SnapshotIffChange ==
    /\ [](disk = Snapshot(subnets))
    /\ [][now' = now => (wrote'.saved <=> PersistentChange)]_vars

\* C13, amended: the saved data always equals the subnets, leases and
\* bindings in memory, and a call that changes them calls save_data; a call
\* that calls save_data and changes none of them is an AddBinding, an
\* update_lease_time or a ReplaceSubnet.
C13_SnapshotAfterChange ==
    /\ [](disk = Snapshot(subnets))
    /\ [][now' = now =>
            /\ PersistentChange => wrote'.saved
            /\ (wrote'.saved /\ ~PersistentChange) =>
                   wrote'.op \in {"AddBinding", "update_lease_time", "ReplaceSubnet"}]_vars

\* A find_or_get_info has just called save_data and left the subnet without
\* any lease: it found no address, and its sweep had removed every lease.
C13_Witness ==
    /\ wrote = Call("find_or_get_info", TRUE)
    /\ disk = Snapshot(subnets)
    /\ FirstSubnet.Name \in DOMAIN subnets
    /\ DOMAIN subnets[FirstSubnet.Name].Leases = {}

C15_OneHolderPerAddress ==
    \A n \in DOMAIN subnets :
        LET s == subnets[n]
        IN  \A k \in DOMAIN s.Leases :
                /\ \A m \in (DOMAIN s.Leases) \ {k} : s.Leases[m].Ip # s.Leases[k].Ip
                /\ \A m \in (DOMAIN s.Bindings) \ {k} : s.Bindings[m].Ip # s.Leases[k].Ip

\* C16: in every reachable state of the repository (after a ReplaceSubnet
\* too), when getFreeIP on a subnet returns an address, that address is
\* ActiveStart + i for the lowest index i whose bit is clear (in the first
\* scan, or after the sweep when the first scan finds none), bit i is set
\* when getFreeIP returns, and the address lies in [ActiveStart, ActiveEnd].
C16_FreeAddressInRange ==
    \A n \in DOMAIN subnets :
        LET s == subnets[n]
            r == getFreeIP(s, now)
            first == firstClearBit(s.ActiveBits)
            i == IF first.ok THEN first.bit ELSE firstClearBit(Sweep(s, now).ActiveBits).bit
        IN  r.ip # Nil =>
                /\ r.ip = s.ActiveStart + i
                /\ BitTest(r.subnet.ActiveBits, i)
                /\ InActive(s, r.ip)

\* C17: in every reachable state of a subnet, when the first scan of
\* getFreeIP finds no clear bit, its sweep removes exactly the leases whose
\* ExpireTime is before now, clears the bit of every removed lease whose
\* address lies in the active range, at whatever offset, and leaves the other
\* leases and the other bits as they were; when the first scan finds a clear
\* bit, getFreeIP removes no lease.
C17_SweepReclaimsExpired ==
    \A n \in DOMAIN subnets :
        LET s == subnets[n]
            r == getFreeIP(s, now)
            gone == {k \in DOMAIN s.Leases : s.Leases[k].ExpireTime < now}
            offsets == {s.Leases[k].Ip - s.ActiveStart :
                           k \in {e \in gone : InActive(s, s.Leases[e].Ip)}}
            swept == Sweep(s, now)
        IN  IF firstClearBit(s.ActiveBits).ok
            THEN r.gone = {} /\ r.subnet.Leases = s.Leases
            ELSE /\ r.gone = gone
                 /\ swept.Leases = [k \in (DOMAIN s.Leases) \ gone |-> s.Leases[k]]
                 /\ \A i \in offsets : ~BitTest(swept.ActiveBits, i)
                 /\ \A i \in (0..(Len(s.ActiveBits) - 1)) \ offsets :
                        BitTest(swept.ActiveBits, i) = BitTest(s.ActiveBits, i)

\* C18: in every reachable state of a subnet, free_lease for a MAC that has
\* a lease removes the lease and leaves the bit of its address clear when
\* the address lies in the active range, at whatever offset, and the step
\* writes the repository to disk; for a MAC without a lease it leaves the
\* subnet and the saved data as they were.
C18_FreeLeaseReleases ==
    /\ [](\A n \in DOMAIN subnets : \A nic \in Macs :
              LET s == subnets[n]
                  after == FreeLeaseOp(s, nic)
              IN  IF nic \in DOMAIN s.Leases
                  THEN /\ nic \notin DOMAIN after.Leases
                       /\ InActive(s, s.Leases[nic].Ip) =>
                              ~BitTest(after.ActiveBits, s.Leases[nic].Ip - s.ActiveStart)
                  ELSE after = s)
    /\ [][\A n \in DOMAIN subnets : \A nic \in Macs :
              FreeLease(n, nic) =>
                  IF nic \in DOMAIN subnets[n].Leases
                  THEN disk' = Snapshot(subnets')
                  ELSE subnets' = subnets /\ disk' = disk]_vars

\* C19: while a handler holds the write lock of a subnet, between the steps
\* of the critical section of find_or_get_info, no step of another caller
\* writes the subnet's Leases, Bindings, ActiveBits or ExpireTime.
C19_WritesHoldTheLock ==
    [][\A h \in Handlers :
          (/\ handlers[h].pc = "locked"
           /\ handlers'[h] = handlers[h]
           /\ handlers[h].sn \in DOMAIN subnets
           /\ handlers[h].sn \in DOMAIN subnets')
              => subnets'[handlers[h].sn] = subnets[handlers[h].sn]]_vars

\* C20: no thread asks for the repository mutex while it holds it (in
\* fe.DhcpInfo.Lock(), or in the dt.lock.Lock() of load_data and save_data),
\* where it would wait forever, and a thread that has returned from its call
\* does not hold the mutex.
C20_MutexDiscipline ==
    \A t \in Handlers :
        /\ calls[t].pc \in {"lock", "data"} => mutex # t
        /\ calls[t].pc = "idle" => mutex # t

\* C21: when a REQUEST handler completes update_lease_time and ACKs address
\* ip to mac, the lease table of the subnet holds a lease of mac with that
\* address and the expiry time now + leaseTime.
C21_AckedLeaseIsHeld ==
    [][\A h \in Handlers :
          (requests[h].pc = "found" /\ requests'[h].pc = "idle") =>
              LET r == requests[h]
                  leases == subnets'[r.sn].Leases
              IN  /\ r.mac \in DOMAIN leases
                  /\ leases[r.mac] = [Ip |-> r.ip, ExpireTime |-> now + r.d]]_vars

\* C22: ReplaceSubnet(name, new) leaves every other subnet of the repository
\* under its name with its contents, and leaves the number of subnets as it
\* was, whatever name the new subnet carries.
C22_ReplaceLeavesOthers ==
    \A n \in Names, s \in ValidInputs :
        LET r == ReplaceSubnetOp(subnets, disk, n, s)
        IN  /\ \A m \in (DOMAIN subnets) \ {n} :
                    m \in DOMAIN r.subnets /\ r.subnets[m] = subnets[m]
            /\ Cardinality(DOMAIN r.subnets) = Cardinality(DOMAIN subnets)

\* C23: the renewal time build_options emits is the 32-bit value of the
\* lease time in seconds divided by 2, the rebinding time that of the lease
\* time in seconds times 3 divided by 4, and the lease time is the subnet's
\* ReservedLeaseTime when the MAC has a binding and its ActiveLeaseTime
\* otherwise.
C23_RenewalAndRebinding ==
    \A h \in Handlers :
        requests[h].pc = "found" =>
            LET r == requests[h]
                s == subnets[r.sn]
            IN  /\ r.d = (IF r.bound THEN s.ReservedLeaseTime ELSE s.ActiveLeaseTime)
                /\ r.renewal = Uint32(r.d \div 2)
                /\ r.rebinding = Uint32((r.d * 3) \div 4)

====
